---- MODULE Spec2Model ----
(***************************************************************************)
(* Model of the stock-alerts repository:                                   *)
(*   src/intraday_backtest.py  the per-symbol backtest script              *)
(*   src/ml_trading_bot.py     the ML bot (run_bot)                        *)
(*                                                                         *)
(* Prices are whole numbers of currency units, so every product, floor     *)
(* division and sum of the scripts is exact.  A row's `name` (its          *)
(* timestamp in the DataFrame index) is its position in the frame: the     *)
(* index is increasing, so positions order rows as their timestamps do.    *)
(* Python's None is the empty sequence <<>>; a dict is <<record>>.         *)
(***************************************************************************)
EXTENDS Integers, Sequences, FiniteSets, TLC

\* ---------------------------------------------------------------- config

\* src/intraday_backtest.py:11  SYMBOLS = ["HUT.TO", "SHOP.TO", "DEFI.NE", "DML.TO"]
SYMBOLS == <<"HUT.TO", "SHOP.TO", "DEFI.NE", "DML.TO">>
POSITION_SIZE == 200
RSI_OVERBOUGHT == 70
RSI_OVERSOLD == 30
\* cash = 1000 (line 164) and the literal 1000 of the ROI (line 240)
StartingCapital == 1000
\* the stop-loss and take-profit multiples of ATR (lines 180, 181)
StopMult == 2
TakeMult == 3
\* rolling(window=50): the largest warm-up window of calculate_indicators
MA50_WINDOW == 50
\* rolling(window=20) of MA20 (line 82)
BT_MA20_WINDOW == 20
\* calculate_rsi(data, window=14), calculate_atr(data, window=14)
RSI_WINDOW == 14
ATR_WINDOW == 14
\* BOLLINGER_WINDOW = 20
BOLLINGER_WINDOW == 20

\* src/ml_trading_bot.py:13  SYMBOLS = ["HUT.TO", "SHOP.TO"]
BOT_SYMBOLS == <<"HUT.TO", "SHOP.TO">>
\* rolling(20): the largest warm-up window of the bot's calculate_indicators
MA20_WINDOW == 20
\* calculate_rsi(data, window=14) of the bot
BOT_RSI_WINDOW == 14
\* proba > 0.7 and proba < 0.3 of the bot's generate_signal, in percent
ProbaBuy == 70
ProbaSell == 30

\* Largest number of rows calculate_indicators returns in the model.
MaxBars == 5
\* Largest number of rows the bot's calculate_indicators returns.
MaxBotBars == 2

\* --------------------------------------------------------------- inputs

\* An indicator row of the frame after calculate_indicators: the bar and
\* the indicator columns generate_signal and the loop read.
Row(l, c, h, atr, ma20, ma50, rsi, macd, sig, lo, up) ==
    [Low |-> l, Close |-> c, High |-> h, ATR |-> atr,
     MA20 |-> ma20, MA50 |-> ma50, RSI |-> rsi,
     MACD |-> macd, MACD_Signal |-> sig,
     LowerBand |-> lo, UpperBand |-> up]

\* Indicator columns around a close c.
\* Uptrend, oversold, MACD above its signal: three BUY votes.
BuyTrend(l, c, h, atr) ==
    Row(l, c, h, atr, c - 5, c - 10, 25, 2, 1, c - 15, c + 5)
\* Oversold, MACD above its signal, close under the lower band: three
\* BUY votes with no trend vote.
BuyOversold(l, c, h, atr) ==
    Row(l, c, h, atr, c + 20, c + 20, 20, 1, 0, c + 5, c + 35)
\* Downtrend, overbought, MACD under its signal: three SELL votes.
SellTrend(l, c, h, atr) ==
    Row(l, c, h, atr, c + 5, c + 10, 75, -2, -1, c - 5, c + 15)
\* No vote at all.
Quiet(l, c, h, atr) ==
    Row(l, c, h, atr, c, c, 50, 0, 0, c - 10, c + 10)

\* The rows a downloaded series can hold.
Rows ==
    { BuyTrend(90, 100, 110, 10),     \* affordable BUY: qty 2, SL 80, TP 130
      BuyTrend(105, 105, 105, 0),     \* BUY on a row whose ATR is 0; held through
      BuyTrend(240, 250, 260, 10),    \* BUY the budget cannot afford
      BuyOversold(0, 0, 10, 10),      \* BUY at a close of 0
      SellTrend(80, 90, 130, 5),      \* low = SL and high = TP and SELL
      Quiet(50, 60, 70, 20),          \* a bar that gapped under SL
      Quiet(100, 120, 140, 10),       \* high over TP only
      SellTrend(90, 110, 120, 10) }   \* SELL votes, no level breached

\* The first row of a frame: `for i in range(1, len(data))` never visits
\* it; it carries BUY votes, so that a visit would show in the log.
FirstRows ==
    { BuyTrend(90, 100, 110, 10) }

\* All sequences over S of length 1..n.
SeqsUpTo(S, n) == UNION { [1..k -> S] : k \in 1..n }

\* The frames of 1..n rows: a first row, then rows of Rows.
Frames(n) ==
    { <<f>> : f \in FirstRows }
    \cup { <<f>> \o t : f \in FirstRows, t \in SeqsUpTo(Rows, n - 1) }

VARIABLES
    pc,             \* where the script is: fetch, loop, plot, next, done
    symIdx,         \* position of `symbol` in SYMBOLS (1-based)
    started,        \* symbols whose loop body has been entered
    nbars,          \* <<>> or <<bars yf.download returned for this symbol>>
    data,           \* the frame after calculate_indicators
    i,              \* the candle loop's index (Python, 0-based)
    position,       \* <<>> (None) or <<dict>>
    trade_log,      \* the trade_log list
    cash,
    total_profit,
    sent,           \* messages handed to send_telegram_message, this symbol
    summary,        \* <<>> or <<the summary values of lines 238-249>>
    chart,          \* the plot of this symbol was saved
    bot,            \* the state of ml_trading_bot.run_bot
    calc            \* one call of a function on its own: fn, args, out

vars == <<pc, symIdx, started, nbars, data, i, position, trade_log, cash,
          total_profit, sent, summary, chart, bot, calc>>

\* ------------------------------------------------------- pure functions

\* data.iloc[k] with Python's 0-based k
Iloc(d, k) == d[k + 1]

\* generate_signal with `else` in place of `elif MACD < MACD_Signal`
generate_signal_MacdElseSell(row, pos) ==
    LET ma_buy   == row.Close > row.MA20 /\ row.MA20 > row.MA50
        ma_sell  == row.Close < row.MA20 /\ row.MA20 < row.MA50
        rsi_buy  == row.RSI < RSI_OVERSOLD
        rsi_sell == row.RSI > RSI_OVERBOUGHT
        macd_buy  == row.MACD > row.MACD_Signal
        bb_buy   == row.Close < row.LowerBand
        bb_sell  == row.Close > row.UpperBand
        B(x) == IF x THEN 1 ELSE 0
        buy_signals  == B(ma_buy) + B(rsi_buy) + B(macd_buy) + B(bb_buy)
        sell_signals == B((~ma_buy) /\ ma_sell) + B((~rsi_buy) /\ rsi_sell)
                        + B(~macd_buy) + B((~bb_buy) /\ bb_sell)
    IN  IF buy_signals >= 3 /\ pos = <<>> THEN "BUY"
        ELSE IF sell_signals >= 3 /\ pos # <<>> THEN "SELL"
        ELSE "NONE"

\* generate_signal(row, position): "NONE" is Python's None
generate_signal(row, pos) ==
    LET ma_buy   == row.Close > row.MA20 /\ row.MA20 > row.MA50
        ma_sell  == row.Close < row.MA20 /\ row.MA20 < row.MA50
        rsi_buy  == row.RSI < RSI_OVERSOLD
        rsi_sell == row.RSI > RSI_OVERBOUGHT
        macd_buy  == row.MACD > row.MACD_Signal
        macd_sell == row.MACD < row.MACD_Signal
        bb_buy   == row.Close < row.LowerBand
        bb_sell  == row.Close > row.UpperBand
        B(x) == IF x THEN 1 ELSE 0
        buy_signals  == B(ma_buy) + B(rsi_buy) + B(macd_buy) + B(bb_buy)
        sell_signals == B((~ma_buy) /\ ma_sell) + B((~rsi_buy) /\ rsi_sell)
                        + B((~macd_buy) /\ macd_sell) + B((~bb_buy) /\ bb_sell)
    IN  IF buy_signals >= 3 /\ pos = <<>> THEN "BUY"
        ELSE IF sell_signals >= 3 /\ pos # <<>> THEN "SELL"
        ELSE "NONE"

\* numpy's nan in a column: no price or indicator of the model is this low.
NaN == -1000000

\* A downloaded series: n bars, of which `tail` are the last rows.  A row
\* of `tail` holds the value each indicator has over the bars available to
\* it; the n = 30 series is a steady rise to a close of 130.
RisingTail == Row(129, 130, 131, 2, 120, 115, 100, 2, 1, 108, 132)
\* A row after 14 flat closes in a frame that moved before: RSI is 0/0.
FlatRow == Row(100, 100, 100, 0, 100, 100, NaN, 0, 0, 100, 100)

RawSeries ==
    { [n |-> 0, tail |-> <<>>], [n |-> 30, tail |-> <<RisingTail>>] }
    \cup { [n |-> MA50_WINDOW - 1, tail |-> <<f>>] : f \in FirstRows }
    \cup { [n |-> MA50_WINDOW - 1 + Len(t), tail |-> t] :
             t \in Frames(MaxBars) }
    \cup { [n |-> MA50_WINDOW + 1, tail |-> t] :
             t \in { <<FlatRow, BuyTrend(90, 100, 110, 10)>>,
                     <<Quiet(50, 60, 70, 20), FlatRow>> } }

\* series.rolling(window).mean() at the k-th bar (1-based): min_periods is
\* the window, so fewer than `window` bars give nan
Rolling(value, k, window) == IF k < window THEN NaN ELSE value

\* dropna that removes no row
dropna_KeepsAll(rows) == rows

\* IndicatorColumns with an MA50 that is a mean over the bars there are
IndicatorColumns_MA50MinPeriods1(row, k) ==
    [row EXCEPT !.MA20 = Rolling(@, k, BT_MA20_WINDOW),
                !.RSI = Rolling(@, k, RSI_WINDOW),
                !.LowerBand = Rolling(@, k, BOLLINGER_WINDOW),
                !.UpperBand = Rolling(@, k, BOLLINGER_WINDOW),
                !.ATR = Rolling(@, k, ATR_WINDOW)]

\* the columns calculate_indicators assigns to the k-th bar (lines 80-95):
\* the RSI's gain and loss are 0 on the first bar (where() replaces the nan
\* of diff()); ewm(adjust=False) and the true range (max(axis=1) skips nan)
\* are defined from the first bar on
IndicatorColumns(row, k) ==
    [row EXCEPT !.MA20 = Rolling(@, k, BT_MA20_WINDOW),
                !.MA50 = Rolling(@, k, MA50_WINDOW),
                !.RSI = Rolling(@, k, RSI_WINDOW),
                !.LowerBand = Rolling(@, k, BOLLINGER_WINDOW),
                !.UpperBand = Rolling(@, k, BOLLINGER_WINDOW),
                !.ATR = Rolling(@, k, ATR_WINDOW)]

\* df.dropna(): the rows without a nan
HasNaN(row) == \E f \in DOMAIN row : row[f] = NaN
dropna(rows) == SelectSeq(rows, LAMBDA r : ~HasNaN(r))

\* calculate_indicators(df): the indicator columns, then df.dropna()
calculate_indicators(raw) ==
    LET first == raw.n - Len(raw.tail)
    IN  dropna([j \in 1..Len(raw.tail) |->
                  IndicatorColumns(raw.tail[j], first + j)])

\* the sum of a sequence of numbers
RECURSIVE SeqSum(_)
SeqSum(s) == IF s = <<>> THEN 0 ELSE s[1] + SeqSum(Tail(s))

\* series.rolling(window) at the last bar, as a sum: `window` times the
\* mean, nan when the series is shorter than the window
RollingSum(s, window) ==
    IF Len(s) < window THEN NaN
    ELSE SeqSum(SubSeq(s, Len(s) - window + 1, Len(s)))

\* delta.where(delta > 0, 0) and -delta.where(delta < 0, 0): the first
\* bar's delta is nan, which where() replaces by 0
Gains(closes) ==
    [k \in 1..Len(closes) |->
        IF k > 1 /\ closes[k] > closes[k - 1]
        THEN closes[k] - closes[k - 1] ELSE 0]
Losses(closes) ==
    [k \in 1..Len(closes) |->
        IF k > 1 /\ closes[k] < closes[k - 1]
        THEN closes[k - 1] - closes[k] ELSE 0]

\* 100 - (100 / (1 + gain / loss)) in numpy's arithmetic, gain and loss
\* being the rolling sums: 0 / 0 is nan, gain / 0 is inf and 100 / inf is
\* 0; any other value is 100 * gain / (gain + loss), kept as its whole
\* part
RsiOf(gain, loss) ==
    IF gain = NaN \/ loss = NaN THEN NaN
    ELSE IF loss = 0 THEN (IF gain = 0 THEN NaN ELSE 100)
    ELSE (100 * gain) \div (gain + loss)

\* calculate_rsi(data, window=14) at the last bar of `closes`
calculate_rsi(closes) ==
    RsiOf(RollingSum(Gains(closes), RSI_WINDOW),
          RollingSum(Losses(closes), RSI_WINDOW))

\* send_telegram_message(message): `response` is what requests.post does,
\* "200", "500" (any other status) or "raises"
send_telegram_message(token, chat_id, response) ==
    IF token /\ chat_id
    THEN [posted |-> TRUE,
          printed |-> IF response = "raises" THEN "Telegram exception:"
                      ELSE IF response # "200" THEN "Telegram error:"
                      ELSE "",
          raised |-> FALSE]
    ELSE [posted |-> FALSE, printed |-> "Missing Telegram credentials.",
          raised |-> FALSE]

\* qty = int(POSITION_SIZE // current["Close"]), for a close above 0
Qty(current) == POSITION_SIZE \div current.Close

\* int(POSITION_SIZE // 0.0): the floor division yields inf and int(inf)
\* raises OverflowError
QtyRaises(current) == current.Close = 0

\* the position dict of lines 177-182
OpenPosition(current, qty) ==
    [buy_price   |-> current.Close,
     qty         |-> qty,
     stop_loss   |-> current.Close - (StopMult * current.ATR),
     take_profit |-> current.Close + (TakeMult * current.ATR)]

\* ExitKind with the take-profit test written before the stop-loss test
ExitKind_TakeProfitFirst(current, p, signal) ==
    IF current.High >= p.take_profit THEN "TAKE_PROFIT"
    ELSE IF current.Low <= p.stop_loss THEN "STOP_LOSS"
    ELSE IF signal = "SELL" THEN "SELL"
    ELSE "NONE"

\* which branch of lines 195-235 runs for an open position p
ExitKind(current, p, signal) ==
    IF current.Low <= p.stop_loss THEN "STOP_LOSS"
    ELSE IF current.High >= p.take_profit THEN "TAKE_PROFIT"
    ELSE IF signal = "SELL" THEN "SELL"
    ELSE "NONE"

\* ExitPrice with every exit recorded at the bar's close
ExitPrice_AtClose(kind, current, p) == current.Close

\* ExitPrice with a stop-loss filled at the bar's low
ExitPrice_StopAtLow(kind, current, p) ==
    CASE kind = "STOP_LOSS"   -> current.Low
      [] kind = "TAKE_PROFIT" -> p.take_profit
      [] kind = "SELL"        -> current.Close

\* the price the exit is recorded at
ExitPrice(kind, current, p) ==
    CASE kind = "STOP_LOSS"   -> p.stop_loss
      [] kind = "TAKE_PROFIT" -> p.take_profit
      [] kind = "SELL"        -> current.Close

\* Profit without the quantity
Profit_PerShare(price, p) == price - p.buy_price

\* profit = (price - position["buy_price"]) * position["qty"]
Profit(price, p) == (price - p.buy_price) * p.qty

\* The loop's state: what one iteration reads and writes.
LoopState(pos, log, total, msgs) ==
    [position |-> pos, trade_log |-> log, total_profit |-> total,
     sent |-> msgs]

\* ExecuteBuy with `qty >= 0` for `qty > 0`
ExecuteBuy_AllowsZeroQty(current, name, st) ==
    LET qty == Qty(current)
    IN  LoopState(<<OpenPosition(current, qty)>>,
                  Append(st.trade_log, <<"BUY", name, current.Close, qty>>),
                  st.total_profit,
                  Append(st.sent, "BUY"))

\* the BUY branch, lines 174-191
ExecuteBuy(current, name, st) ==
    LET qty == Qty(current)
    IN  IF qty > 0
        THEN LoopState(<<OpenPosition(current, qty)>>,
                       Append(st.trade_log,
                              <<"BUY", name, current.Close, qty>>),
                       st.total_profit,
                       Append(st.sent, "BUY"))
        ELSE st

\* ExecuteExit without `position = None`
ExecuteExit_KeepsPosition(current, name, signal, st) ==
    LET p    == st.position[1]
        kind == ExitKind(current, p, signal)
    IN  IF kind = "NONE" THEN st
        ELSE LET price  == ExitPrice(kind, current, p)
                 profit == Profit(price, p)
             IN  LoopState(st.position,
                           Append(st.trade_log,
                                  <<"SELL", name, price, p.qty, profit>>),
                           st.total_profit + profit,
                           Append(st.sent, kind))

\* ExecuteExit with the take-profit test as an `if` of its own: a bar
\* that breaches both levels is exited twice
ExecuteExit_FallsThrough(current, name, signal, st) ==
    LET p    == st.position[1]
        kind == ExitKind(current, p, signal)
        both == kind = "STOP_LOSS" /\ current.High >= p.take_profit
    IN  IF kind = "NONE" THEN st
        ELSE LET price  == ExitPrice(kind, current, p)
                 profit == Profit(price, p)
                 first  == LoopState(<<>>,
                               Append(st.trade_log,
                                      <<"SELL", name, price, p.qty, profit>>),
                               st.total_profit + profit,
                               Append(st.sent, kind))
                 profit2 == Profit(p.take_profit, p)
             IN  IF both
                 THEN LoopState(<<>>,
                          Append(first.trade_log,
                                 <<"SELL", name, p.take_profit, p.qty,
                                   profit2>>),
                          first.total_profit + profit2,
                          Append(first.sent, "TAKE_PROFIT"))
                 ELSE first

\* the exit branch, lines 193-235
ExecuteExit(current, name, signal, st) ==
    LET p    == st.position[1]
        kind == ExitKind(current, p, signal)
    IN  IF kind = "NONE" THEN st
        ELSE LET price  == ExitPrice(kind, current, p)
                 profit == Profit(price, p)
             IN  LoopState(<<>>,
                           Append(st.trade_log,
                                  <<"SELL", name, price, p.qty, profit>>),
                           st.total_profit + profit,
                           Append(st.sent, kind))

\* ExecuteBar with `if position:` for `elif position:`: the exit tests
\* also run on the bar that opened the position
ExecuteBar_ExitTestsAfterBuy(current, name, st) ==
    LET signal == generate_signal(current, st.position)
        bought == IF signal = "BUY" /\ st.position = <<>>
                  THEN ExecuteBuy(current, name, st)
                  ELSE st
    IN  IF bought.position # <<>>
        THEN ExecuteExit(current, name, signal, bought)
        ELSE bought

\* one iteration of the candle loop, lines 169-235
ExecuteBar(current, name, st) ==
    LET signal == generate_signal(current, st.position)
    IN  IF signal = "BUY" /\ st.position = <<>>
        THEN ExecuteBuy(current, name, st)
        ELSE IF st.position # <<>>
        THEN ExecuteExit(current, name, signal, st)
        ELSE st

\* the iteration raises: the BUY branch divides by a close of 0
BarRaises(current, pos) ==
    /\ generate_signal(current, pos) = "BUY"
    /\ pos = <<>>
    /\ QtyRaises(current)

\* Summarise with final_value = cash + open_position_value
Summarise_DropsRealized(d, pos, money, total, log) ==
    LET price == d[Len(d)].Close
        open_position_value == IF pos # <<>> THEN pos[1].qty * price ELSE 0
        final_value == money + open_position_value
    IN  [price |-> price,
         open_position_value |-> open_position_value,
         total_profit |-> total,
         final_value |-> final_value,
         roi_tenths |-> ((final_value - StartingCapital) * 1000)
                         \div StartingCapital,
         trades |-> Len(log)]

\* Summarise with the open position valued at its entry price
Summarise_MarksAtEntry(d, pos, money, total, log) ==
    LET price == d[Len(d)].Close
        open_position_value ==
            IF pos # <<>> THEN pos[1].qty * pos[1].buy_price ELSE 0
        final_value == money + total + open_position_value
    IN  [price |-> price,
         open_position_value |-> open_position_value,
         total_profit |-> total,
         final_value |-> final_value,
         roi_tenths |-> ((final_value - StartingCapital) * 1000)
                         \div StartingCapital,
         trades |-> Len(log)]

\* the summary values, lines 238-249
Summarise(d, pos, money, total, log) ==
    LET price == d[Len(d)].Close
        open_position_value == IF pos # <<>> THEN pos[1].qty * price ELSE 0
        final_value == money + total + open_position_value
    IN  [price |-> price,
         open_position_value |-> open_position_value,
         total_profit |-> total,
         final_value |-> final_value,
         \* roi in tenths of a percent: (final_value - 1000) / 1000 * 100
         roi_tenths |-> ((final_value - StartingCapital) * 1000)
                         \div StartingCapital,
         trades |-> Len(log)]

\* ------------------------------------------------- ml_trading_bot.py

\* The rows the bot's generate_signal reads: close over or under MA20.
BotRows == { [Close |-> 100, MA20 |-> 90], [Close |-> 100, MA20 |-> 110] }

\* The probabilities predict_proba can return, in percent.
Probas == {20, 30, 70, 80}

\* A series downloaded by the bot: n bars, `tail` the rows from bar
\* MA20_WINDOW on.
BotRawSeries ==
    { [n |-> m, tail |-> <<>>] : m \in {0, 10, MA20_WINDOW - 1} }
    \cup { [n |-> MA20_WINDOW - 1 + Len(t), tail |-> t] :
             t \in SeqsUpTo(BotRows, MaxBotBars) }

\* the bot's calculate_indicators: rolling(20) is undefined on the first
\* 19 rows, which dropna() removes
bot_calculate_indicators(raw) ==
    IF raw.n < MA20_WINDOW THEN <<>> ELSE raw.tail

\* train_model: train_test_split(test_size=0.2, shuffle=False) raises
\* ValueError when the train set would be empty
TrainRaises(d) == Len(d) < 2

\* the bot's generate_signal(row, model), proba being the model's output
bot_generate_signal(row, proba) ==
    IF proba > ProbaBuy /\ row.Close > row.MA20 THEN "BUY"
    ELSE IF proba < ProbaSell THEN "SELL"
    ELSE "NONE"

\* the bot's calculate_rsi(data, window=14) at the last bar of `closes`
bot_calculate_rsi(closes) ==
    RsiOf(RollingSum(Gains(closes), BOT_RSI_WINDOW),
          RollingSum(Losses(closes), BOT_RSI_WINDOW))

\* the bot's send_alert(symbol, signal, price): requests.post is called
\* outside any try, and its response is not looked at
send_alert(token, response) ==
    IF token
    THEN [posted |-> TRUE, printed |-> "", raised |-> response = "raises"]
    ELSE [posted |-> FALSE, printed |-> "", raised |-> FALSE]

\* ------------------------------------------------------------- actions

\* The backtest script is not the program that runs.
BotOff ==
    [pc |-> "off", idx |-> 0, started |-> {}, token |-> FALSE,
     model_file |-> FALSE, nbars |-> <<>>, data |-> <<>>,
     signal |-> "NONE", alerts |-> <<>>, charts |-> {}]

\* No function is called on its own.
CalcOff == [fn |-> "off", args |-> <<>>, out |-> <<>>]

InitBacktest ==
    /\ bot = BotOff
    /\ pc = "fetch"
    /\ symIdx = 1
    /\ started = {}
    /\ calc = CalcOff
    /\ nbars = <<>>
    /\ data = <<>>
    /\ i = 0
    /\ position = <<>>
    /\ trade_log = <<>>
    /\ cash = 0
    /\ total_profit = 0
    /\ sent = <<>>
    /\ summary = <<>>
    /\ chart = FALSE

\* run_bot is the program that runs; TELEGRAM_TOKEN may be set or not and
\* model.joblib may exist or not.
InitBot ==
    /\ bot \in { [BotOff EXCEPT !.pc = "fetch", !.idx = 1, !.token = t,
                                !.model_file = m] : t, m \in BOOLEAN }
    /\ pc = "off"
    /\ symIdx = 0
    /\ started = {}
    /\ calc = CalcOff
    /\ nbars = <<>>
    /\ data = <<>>
    /\ i = 0
    /\ position = <<>>
    /\ trade_log = <<>>
    /\ cash = 0
    /\ total_profit = 0
    /\ sent = <<>>
    /\ summary = <<>>
    /\ chart = FALSE

\* One of the two scripts is run.
Init == InitBacktest \/ InitBot

\* the except clause, lines 295-297: the error is reported and the
\* symbol loop goes on
Except ==
    /\ sent' = Append(sent, "ERROR")
    /\ pc' = "next"

\* lines 137-165 with a download that raises (or an index that
\* tz_localize rejects)
FetchRaises ==
    /\ pc = "fetch"
    /\ started' = started \cup {symIdx}
    /\ Except
    /\ UNCHANGED <<symIdx, nbars, data, i, position, trade_log, cash,
                   total_profit, summary, chart, bot, calc>>

\* lines 137-165: download, the two emptiness checks, the loop's
\* initial state
Fetch ==
    /\ pc = "fetch"
    /\ started' = started \cup {symIdx}
    /\ \E raw \in RawSeries :
        /\ nbars' = <<raw.n>>
        /\ IF raw.n = 0
           THEN /\ sent' = Append(sent, "NO_DATA")
                /\ pc' = "next"
                /\ UNCHANGED <<data, i, position, trade_log, cash,
                               total_profit>>
           ELSE /\ data' = calculate_indicators(raw)
                /\ IF data' = <<>>
                   THEN /\ sent' = Append(sent, "INSUFFICIENT")
                        /\ pc' = "next"
                        /\ UNCHANGED <<i, position, trade_log, cash,
                                       total_profit>>
                   ELSE /\ trade_log' = <<>>
                        /\ position' = <<>>
                        /\ cash' = StartingCapital
                        /\ total_profit' = 0
                        /\ i' = 1
                        /\ pc' = "loop"
                        /\ UNCHANGED sent
    /\ UNCHANGED <<symIdx, summary, chart, bot, calc>>

\* one iteration of `for i in range(1, len(data))`
Bar ==
    /\ pc = "loop"
    /\ i < Len(data)
    /\ LET current == Iloc(data, i)
       IN  IF BarRaises(current, position)
           THEN /\ Except
                /\ UNCHANGED <<i, position, trade_log, total_profit>>
           ELSE LET st == ExecuteBar(current, i,
                              LoopState(position, trade_log,
                                        total_profit, sent))
                IN  /\ position' = st.position
                    /\ trade_log' = st.trade_log
                    /\ total_profit' = st.total_profit
                    /\ sent' = st.sent
                    /\ i' = i + 1
                    /\ UNCHANGED pc
    /\ UNCHANGED <<symIdx, started, nbars, data, cash, summary, chart,
                   bot, calc>>

\* lines 237-251, once the candle loop is exhausted
Summary ==
    /\ pc = "loop"
    /\ i >= Len(data)
    /\ summary' = <<Summarise(data, position, cash, total_profit,
                              trade_log)>>
    /\ sent' = Append(sent, "SUMMARY")
    /\ pc' = "plot"
    /\ UNCHANGED <<symIdx, started, nbars, data, i, position, trade_log,
                   cash, total_profit, chart, bot, calc>>

\* lines 253-293: the chart is saved
Plot ==
    /\ pc = "plot"
    /\ chart' = TRUE
    /\ pc' = "next"
    /\ UNCHANGED <<symIdx, started, nbars, data, i, position, trade_log,
                   cash, total_profit, sent, summary, bot, calc>>

\* lines 253-293 with a plotting call that raises
PlotRaises ==
    /\ pc = "plot"
    /\ Except
    /\ UNCHANGED <<symIdx, started, nbars, data, i, position, trade_log,
                   cash, total_profit, summary, chart, bot, calc>>

\* `for symbol in SYMBOLS` takes the next symbol (after `continue`, the
\* end of the body or the except clause).  The names the body binds are
\* dead here: each is assigned again before it is read, so the model
\* clears them.
NextSymbol ==
    /\ pc = "next"
    /\ symIdx' = symIdx + 1
    /\ pc' = IF symIdx + 1 > Len(SYMBOLS) THEN "done" ELSE "fetch"
    /\ nbars' = <<>>
    /\ data' = <<>>
    /\ i' = 0
    /\ position' = <<>>
    /\ trade_log' = <<>>
    /\ cash' = 0
    /\ total_profit' = 0
    /\ sent' = <<>>
    /\ summary' = <<>>
    /\ chart' = FALSE
    /\ UNCHANGED <<started, bot, calc>>

\* ------------------------------------------------------ run_bot actions

BacktestVars == <<pc, symIdx, started, nbars, data, i, position, trade_log,
                  cash, total_profit, sent, summary, chart, calc>>

\* `for symbol in SYMBOLS` of run_bot takes the next symbol
BotAdvance(b) ==
    [b EXCEPT !.idx = b.idx + 1,
              !.pc = IF b.idx + 1 > Len(BOT_SYMBOLS) THEN "done" ELSE "fetch",
              !.nbars = <<>>,
              !.data = <<>>,
              !.signal = "NONE"]

\* An exception nothing catches ends run_bot.
BotCrash(b) == [b EXCEPT !.pc = "crashed"]

\* lines 73-74: download and calculate_indicators
BotFetch ==
    /\ bot.pc = "fetch"
    /\ \E raw \in BotRawSeries :
         bot' = [bot EXCEPT !.started = @ \cup {bot.idx},
                            !.nbars = <<raw.n>>,
                            !.data = bot_calculate_indicators(raw),
                            !.pc = "model"]
    /\ UNCHANGED BacktestVars

\* line 73 with a download that raises
BotFetchRaises ==
    /\ bot.pc = "fetch"
    /\ bot' = BotCrash([bot EXCEPT !.started = @ \cup {bot.idx}])
    /\ UNCHANGED BacktestVars

\* lines 76-79: load model.joblib, or train and save one
BotModel ==
    /\ bot.pc = "model"
    /\ bot' = IF bot.model_file THEN [bot EXCEPT !.pc = "signal"]
              ELSE IF TrainRaises(bot.data) THEN BotCrash(bot)
              ELSE [bot EXCEPT !.model_file = TRUE, !.pc = "signal"]
    /\ UNCHANGED BacktestVars

\* lines 81-84: the latest row and its signal; data.iloc[-1] raises
\* IndexError on an empty frame
BotSignal ==
    /\ bot.pc = "signal"
    /\ IF bot.data = <<>>
       THEN bot' = BotCrash(bot)
       ELSE \E proba \in Probas :
              LET latest == bot.data[Len(bot.data)]
                  signal == bot_generate_signal(latest, proba)
              IN  bot' = IF signal = "NONE" THEN BotAdvance(bot)
                         ELSE [bot EXCEPT !.signal = signal, !.pc = "alert"]
    /\ UNCHANGED BacktestVars

\* lines 85-86: send_alert posts when TELEGRAM_TOKEN is set, then
\* plot_data saves the chart
BotAlert ==
    /\ bot.pc = "alert"
    /\ bot' = BotAdvance(
                [bot EXCEPT !.alerts = IF bot.token
                                       THEN Append(@, <<bot.idx, bot.signal>>)
                                       ELSE @,
                            !.charts = @ \cup {bot.idx}])
    /\ UNCHANGED BacktestVars

\* line 85 with a requests.post that raises: send_alert has no handler
BotAlertRaises ==
    /\ bot.pc = "alert"
    /\ bot.token
    /\ bot' = BotCrash(bot)
    /\ UNCHANGED BacktestVars

Next ==
    \/ BotFetch
    \/ BotFetchRaises
    \/ BotModel
    \/ BotSignal
    \/ BotAlert
    \/ BotAlertRaises
    \/ Fetch
    \/ FetchRaises
    \/ Bar
    \/ Summary
    \/ Plot
    \/ PlotRaises
    \/ NextSymbol

Spec == Init /\ [][Next]_vars

\* ------------------------------------------- the functions on their own

\* Closes of RSI_WINDOW + 1 bars: from 100, u rises of a, then d falls of
\* 1, then unchanged.
RsiCloses(u, d, a) ==
    [k \in 1..(RSI_WINDOW + 1) |->
        LET up == IF k - 1 < u THEN k - 1 ELSE u
            down == IF k - 1 - u < 0 THEN 0
                    ELSE IF k - 1 - u < d THEN k - 1 - u ELSE d
        IN  100 + (a * up) - down]

RsiInputs ==
    { RsiCloses(u, RSI_WINDOW - n, a) :
        u \in 0..RSI_WINDOW, n \in 0..RSI_WINDOW, a \in {1, 3} }

\* Rows for generate_signal around a close of 100: each group of columns
\* votes BUY, votes SELL or sits on the boundary of its comparison.
SignalRows ==
    { Row(90, 100, 110, 10, ma[1], ma[2], rsi, macd[1], macd[2],
          band[1], band[2]) :
        ma \in { <<95, 90>>, <<105, 110>>, <<100, 100>> },
        rsi \in { 25, RSI_OVERSOLD, RSI_OVERBOUGHT, 75 },
        macd \in { <<2, 1>>, <<1, 1>>, <<-2, -1>> },
        band \in { <<105, 135>>, <<65, 95>>, <<90, 110>> } }

\* position is None or a position dict
SignalPositions ==
    { <<>>, <<OpenPosition(BuyTrend(90, 100, 110, 10), 2)>> }

\* what requests.post does: status 200, another status, an exception
Responses == {"200", "500", "raises"}

\* The calls made on their own, before they return.
CalcInputs ==
    { [fn |-> f, args |-> <<c>>, out |-> <<>>] :
        f \in {"calculate_rsi", "bot_calculate_rsi"}, c \in RsiInputs }
    \cup { [fn |-> "generate_signal", args |-> <<r, p>>, out |-> <<>>] :
              r \in SignalRows, p \in SignalPositions }
    \cup { [fn |-> "send_telegram_message", args |-> <<t, c, r>>,
            out |-> <<>>] : t \in BOOLEAN, c \in BOOLEAN, r \in Responses }
    \cup { [fn |-> "send_alert", args |-> <<t, r>>, out |-> <<>>] :
              t \in BOOLEAN, r \in Responses }

\* One function of the scripts is called on one input.
InitPure ==
    /\ calc \in CalcInputs
    /\ bot = BotOff
    /\ pc = "off"
    /\ symIdx = 0
    /\ started = {}
    /\ nbars = <<>>
    /\ data = <<>>
    /\ i = 0
    /\ position = <<>>
    /\ trade_log = <<>>
    /\ cash = 0
    /\ total_profit = 0
    /\ sent = <<>>
    /\ summary = <<>>
    /\ chart = FALSE

PipelineVars == <<pc, symIdx, started, nbars, data, i, position, trade_log,
                  cash, total_profit, sent, summary, chart, bot>>

\* the row of a frame whose RSI column is `rsi` survives df.dropna()
KeptByDropna(rsi) ==
    dropna(<<[Quiet(90, 100, 110, 10) EXCEPT !.RSI = rsi]>>) # <<>>

\* calculate_rsi returns; the row then goes through df.dropna()
ApplyRsi ==
    /\ calc.fn = "calculate_rsi"
    /\ calc.out = <<>>
    /\ LET rsi == calculate_rsi(calc.args[1])
       IN  calc' = [calc EXCEPT
                      !.out = <<[rsi |-> rsi, kept |-> KeptByDropna(rsi)]>>]
    /\ UNCHANGED PipelineVars

\* the bot's calculate_rsi returns; the row then goes through dropna()
ApplyBotRsi ==
    /\ calc.fn = "bot_calculate_rsi"
    /\ calc.out = <<>>
    /\ LET rsi == bot_calculate_rsi(calc.args[1])
       IN  calc' = [calc EXCEPT
                      !.out = <<[rsi |-> rsi, kept |-> KeptByDropna(rsi)]>>]
    /\ UNCHANGED PipelineVars

\* generate_signal returns
ApplySignal ==
    /\ calc.fn = "generate_signal"
    /\ calc.out = <<>>
    /\ calc' = [calc EXCEPT
                  !.out = <<generate_signal(calc.args[1], calc.args[2])>>]
    /\ UNCHANGED PipelineVars

\* send_telegram_message returns
ApplySend ==
    /\ calc.fn = "send_telegram_message"
    /\ calc.out = <<>>
    /\ calc' = [calc EXCEPT
                  !.out = <<send_telegram_message(calc.args[1], calc.args[2],
                                                  calc.args[3])>>]
    /\ UNCHANGED PipelineVars

\* send_alert returns or raises
ApplySendAlert ==
    /\ calc.fn = "send_alert"
    /\ calc.out = <<>>
    /\ calc' = [calc EXCEPT
                  !.out = <<send_alert(calc.args[1], calc.args[2])>>]
    /\ UNCHANGED PipelineVars

NextPure ==
    \/ ApplyRsi
    \/ ApplyBotRsi
    \/ ApplySignal
    \/ ApplySend
    \/ ApplySendAlert

SpecPure == InitPure /\ [][NextPure]_vars

\* ------------------------------------------------------ reading the log

\* The step is an iteration of the candle loop that did not raise.
BarStep == pc = "loop" /\ i' = i + 1

\* The events a step appended to the trade log.
NewEvents == (Len(trade_log) + 1) .. Len(trade_log')

\* The step kept what the trade log held.
LogKept ==
    /\ Len(trade_log') >= Len(trade_log)
    /\ SubSeq(trade_log', 1, Len(trade_log)) = trade_log

IsBuy(ev)  == ev[1] = "BUY"
IsExit(ev) == ev[1] = "SELL"

\* The BUY event of the position that event k of the log closes.
EntryOf(log, k) ==
    log[CHOOSE j \in 1..(k - 1) :
          /\ IsBuy(log[j])
          /\ \A m \in (j + 1)..(k - 1) : ~IsBuy(log[m])]

\* The row an event was logged on (its name is the row's position).
BarOf(ev) == Iloc(data, ev[2])

\* The levels of the position that event k closes, from its entry row:
\* entry close minus 2 ATR, entry close plus 3 ATR.
StopLevelAt(k) ==
    LET b == EntryOf(trade_log, k)
    IN  b[3] - 2 * BarOf(b).ATR

TakeLevelAt(k) ==
    LET b == EntryOf(trade_log, k)
    IN  b[3] + 3 * BarOf(b).ATR

\* Every trade event is followed by its message, so while a symbol is
\* processed message k tells the kind of event k.
StopLossExits ==
    { k \in DOMAIN trade_log :
        IsExit(trade_log[k]) /\ sent[k] = "STOP_LOSS" }

\* The bar of exit k lies under the stop level, its close included.
Gapped(k) ==
    /\ BarOf(trade_log[k]).High < StopLevelAt(k)
    /\ BarOf(trade_log[k]).Close < StopLevelAt(k)

\* (exit price - entry price) x quantity of the closed position, summed
\* over the exits among the first k events.
RECURSIVE RealizedSum(_, _)
RealizedSum(log, k) ==
    IF k = 0 THEN 0
    ELSE RealizedSum(log, k - 1)
         + (IF IsExit(log[k])
            THEN (log[k][3] - EntryOf(log, k)[3]) * EntryOf(log, k)[4]
            ELSE 0)

\* The profits recorded in the exit events, summed.
RECURSIVE RecordedSum(_, _)
RecordedSum(log, k) ==
    IF k = 0 THEN 0
    ELSE RecordedSum(log, k - 1) + (IF IsExit(log[k]) THEN log[k][5] ELSE 0)

\* ---------------------------------------------------------------- claims

\* C1: a BUY event is appended only when no position is open before the
\* bar, and leaves one open; an exit event is appended only when a
\* position is open before the bar, and leaves none; the position
\* changes only together with such an event.
C1_Step ==
    pc = "loop" =>
        /\ LogKept
        /\ \A k \in NewEvents :
             /\ IsBuy(trade_log'[k]) => position = <<>> /\ position' # <<>>
             /\ IsExit(trade_log'[k]) => position # <<>> /\ position' = <<>>
             /\ IsBuy(trade_log'[k]) \/ IsExit(trade_log'[k])
        /\ position' # position => NewEvents # {}
        /\ Len(position') <= 1

C1_BuyFromFlatExitFromLong == [][C1_Step]_vars

C1_Witness ==
    /\ pc = "loop"
    /\ Len(trade_log) = 3
    /\ IsBuy(trade_log[1]) /\ IsExit(trade_log[2]) /\ IsBuy(trade_log[3])
    /\ position # <<>>

\* C2: on a bar processed while Long the exits are tried in the order
\* stop-loss, take-profit, signal SELL: low <= stop-loss gives a
\* stop-loss exit at the stop-loss price whatever the high and the
\* signal; a take-profit exit needs low > stop-loss; a signal SELL exit,
\* at the close, needs that neither level was breached.
C2_Step ==
    (BarStep /\ position # <<>>) =>
        LET cur     == Iloc(data, i)
            p       == position[1]
            sell    == generate_signal(cur, position) = "SELL"
            stopHit == cur.Low <= p.stop_loss
            takeHit == cur.High >= p.take_profit
            exited  == Len(trade_log') = Len(trade_log) + 1
            ev      == trade_log'[Len(trade_log')]
            msg     == sent'[Len(sent')]
        IN  /\ stopHit => exited /\ msg = "STOP_LOSS" /\ ev[3] = p.stop_loss
            /\ (~stopHit /\ takeHit) =>
                  exited /\ msg = "TAKE_PROFIT" /\ ev[3] = p.take_profit
            /\ (~stopHit /\ ~takeHit /\ sell) =>
                  exited /\ msg = "SELL" /\ ev[3] = cur.Close
            /\ (~stopHit /\ ~takeHit /\ ~sell) =>
                  trade_log' = trade_log /\ sent' = sent
            /\ exited => IsExit(ev)

C2_ExitOrder == [][C2_Step]_vars

\* a stop-loss exit on a bar whose high reached the take-profit and on
\* which the classifier said SELL
C2_Witness ==
    /\ pc = "loop"
    /\ trade_log # <<>>
    /\ LET k   == Len(trade_log)
           bar == BarOf(trade_log[k])
       IN  /\ k \in StopLossExits
           /\ StopLevelAt(k) < TakeLevelAt(k)
           /\ bar.High >= TakeLevelAt(k)
           /\ generate_signal(bar, <<EntryOf(trade_log, k)>>) = "SELL"

\* C3: a bar appends at most one exit event and adds at most one
\* realized profit, that exit's, to the running total.
C3_Step ==
    pc = "loop" =>
        LET exits == { k \in NewEvents : IsExit(trade_log'[k]) }
        IN  /\ LogKept
            /\ Cardinality(exits) <= 1
            /\ exits = {} => total_profit' = total_profit
            /\ \A k \in exits :
                 total_profit' = total_profit + trade_log'[k][5]

C3_OneExitPerBar == [][C3_Step]_vars

\* two bars of one run have each exited a position
C3_Witness ==
    /\ pc = "loop"
    /\ Cardinality({ k \in DOMAIN trade_log : IsExit(trade_log[k]) }) = 2
    /\ \E k \in StopLossExits : BarOf(trade_log[k]).High >= TakeLevelAt(k)

\* C4: the running total is the sum over the exit events of
\* (exit price - entry price) x quantity of the position closed.
C4_TotalIsSumOfExits ==
    total_profit = RealizedSum(trade_log, Len(trade_log))

C4_Witness ==
    \E j, k \in DOMAIN trade_log :
        /\ j < k
        /\ IsExit(trade_log[j]) /\ IsExit(trade_log[k])
        /\ trade_log[j][5] # 0
        /\ trade_log[k][5] # 0
        /\ trade_log[j][5] # trade_log[k][5]
        /\ EntryOf(trade_log, k)[4] > 1

\* C5: a run that ends with no position open reports a final value that
\* exceeds the starting capital by the sum of the recorded profits.
C5_FlatFinalValue ==
    (summary # <<>> /\ position = <<>>) =>
        summary[1].final_value - StartingCapital
            = RecordedSum(trade_log, Len(trade_log))

C5_Witness ==
    /\ summary # <<>>
    /\ position = <<>>
    /\ \E k \in DOMAIN trade_log :
         IsExit(trade_log[k]) /\ trade_log[k][5] # 0
    /\ summary[1].final_value # StartingCapital

\* C6: with a position opened at entry price E, quantity q on a row
\* whose ATR is A, a later bar with low <= E - 2A gives exactly one
\* exit, a stop-loss at E - 2A with profit -2 x A x q; otherwise a bar
\* with high >= E + 3A gives a take-profit at E + 3A with profit
\* 3 x A x q.  A is the entry row's ATR.
C6_Step ==
    (BarStep /\ position # <<>>) =>
        LET cur   == Iloc(data, i)
            buy   == trade_log[Len(trade_log)]
            entry == BarOf(buy)
            E     == entry.Close
            A     == entry.ATR
            q     == buy[4]
        IN  /\ IsBuy(buy)
            /\ cur.Low <= E - 2 * A =>
                 /\ trade_log' = Append(trade_log,
                                   <<"SELL", i, E - 2 * A, q, -2 * A * q>>)
                 /\ sent' = Append(sent, "STOP_LOSS")
            /\ (cur.Low > E - 2 * A /\ cur.High >= E + 3 * A) =>
                 /\ trade_log' = Append(trade_log,
                                   <<"SELL", i, E + 3 * A, q, 3 * A * q>>)
                 /\ sent' = Append(sent, "TAKE_PROFIT")

C6_RiskExitsAtEntryLevels == [][C6_Step]_vars

\* a stop-loss exit on a bar whose low equals the stop level and whose
\* own ATR is not the entry row's
C6_Witness ==
    /\ pc = "loop"
    /\ \E k \in StopLossExits :
         /\ BarOf(trade_log[k]).Low = StopLevelAt(k)
         /\ BarOf(trade_log[k]).ATR # BarOf(EntryOf(trade_log, k)).ATR
         /\ trade_log[k][5] < 0

\* C7 as stated: a stop-loss exit on a bar that gapped through the stop
\* level is recorded at a price <= that bar's close.
C7_StopPriceAtMostClose ==
    \A k \in StopLossExits :
        Gapped(k) => trade_log[k][3] <= BarOf(trade_log[k]).Close

\* C7 as amended: a stop-loss exit is recorded at the position's
\* stop-loss level, which is >= the triggering bar's low; on a bar that
\* gapped through the level the recorded price is above the bar's close.
C7_StopPriceIsStopLevel ==
    \A k \in StopLossExits :
        /\ trade_log[k][3] = StopLevelAt(k)
        /\ trade_log[k][3] >= BarOf(trade_log[k]).Low
        /\ Gapped(k) => trade_log[k][3] > BarOf(trade_log[k]).Close

C7_Witness ==
    \E k \in StopLossExits :
        /\ Gapped(k)
        /\ BarOf(trade_log[k]).Low < StopLevelAt(k)

\* C8: every open position has entry price > 0, quantity >= 1 and
\* stop-loss < entry price < take-profit.
C8_PositionWellFormed ==
    position # <<>> =>
        /\ position[1].buy_price > 0
        /\ position[1].qty >= 1
        /\ position[1].stop_loss < position[1].buy_price
        /\ position[1].buy_price < position[1].take_profit

\* C9: on a BUY decision while Flat the quantity is floor(budget /
\* close): the largest q with q x close <= budget.  With q >= 1 a
\* position of q units is opened at the close and one BUY event logged;
\* with q < 1 nothing changes and nothing is sent.
C9_Step ==
    (BarStep /\ position = <<>>
             /\ generate_signal(Iloc(data, i), position) = "BUY") =>
        LET cur == Iloc(data, i)
        IN  IF cur.Close <= POSITION_SIZE
            THEN /\ position' # <<>>
                 /\ LET q == position'[1].qty
                    IN  /\ q >= 1
                        /\ q * cur.Close <= POSITION_SIZE
                        /\ (q + 1) * cur.Close > POSITION_SIZE
                        /\ position'[1].buy_price = cur.Close
                        /\ trade_log' = Append(trade_log,
                                               <<"BUY", i, cur.Close, q>>)
                        /\ sent' = Append(sent, "BUY")
            ELSE /\ position' = <<>>
                 /\ trade_log' = trade_log
                 /\ sent' = sent

C9_BuySizing == [][C9_Step]_vars

\* a BUY decision the budget could not afford has been passed over, and
\* later one it could afford was executed
C9_Witness ==
    /\ pc = "loop"
    /\ Len(trade_log) = 1
    /\ IsBuy(trade_log[1])
    /\ trade_log[1][4] > 1
    /\ \E k \in 1..(trade_log[1][2] - 1) :
         /\ generate_signal(Iloc(data, k), <<>>) = "BUY"
         /\ Iloc(data, k).Close > POSITION_SIZE

\* C10: in both scripts a failure on one instrument does not end the
\* run: when the run is over every instrument of the list was taken up.
C10_EveryInstrumentProcessed ==
    /\ pc = "done" => started = DOMAIN SYMBOLS
    /\ bot.pc \in {"done", "crashed"} => bot.started = DOMAIN BOT_SYMBOLS

\* ------------------------------------------------- C11: an empty series

\* C11: when the download returns an empty series the instrument is
\* short-circuited.  In the backtest exactly one warning is sent, there is
\* no frame, no trade event, no summary and no chart, and the loop is about
\* to take the next symbol; in run_bot no indicator, model or signal code
\* runs on the empty series, so run_bot is never at its model, signal or
\* alert step, nor crashed, while the empty series is the current one.
C11_EmptySeriesShortCircuits ==
    /\ nbars = <<0>> =>
          /\ pc = "next"
          /\ sent = <<"NO_DATA">>
          /\ data = <<>>
          /\ trade_log = <<>>
          /\ summary = <<>>
          /\ ~chart
    /\ bot.nbars = <<0>> =>
          bot.pc \notin {"model", "signal", "alert", "crashed"}

\* ---------------------------------------- C12: fewer bars than the window

\* C12: for a non-empty series of fewer than 50 bars calculate_indicators
\* returns no row; the script sends the insufficient-data message and
\* skips the symbol with no trade event, no summary and no chart.
C12_ShortSeriesSkipped ==
    \A n \in 1..(MA50_WINDOW - 1) :
        nbars = <<n>> =>
          /\ data = <<>>
          /\ pc = "next"
          /\ sent = <<"INSUFFICIENT">>
          /\ trade_log = <<>>
          /\ summary = <<>>
          /\ ~chart

\* a 49-bar series has been downloaded and reported as insufficient
C12_Witness ==
    /\ nbars = <<MA50_WINDOW - 1>>
    /\ sent = <<"INSUFFICIENT">>
    /\ pc = "next"

\* ------------------------------------------ C13: the 30-bar rising series

\* the 30-bar series of RawSeries, closes rising to 130
ScenarioBars == CHOOSE n \in 1..(MA50_WINDOW - 1) :
                    [n |-> n, tail |-> <<RisingTail>>] \in RawSeries

\* C13 as stated: the backtest of the 30-bar rising series ends with
\* exactly one BUY event, no exit event, and a summary whose ROI is over 0.
C13_RisingSeriesOneBuy ==
    (nbars = <<ScenarioBars>> /\ pc = "next") =>
        /\ Len(trade_log) = 1
        /\ trade_log[1][1] = "BUY"
        /\ summary # <<>>
        /\ summary[1].roi_tenths > 0

\* C13 amended: the 30-bar rising series has fewer bars than the MA50
\* window, so calculate_indicators returns no row; the backtest sends the
\* insufficient-data message, logs no BUY and no exit, and reports no ROI.
C13_RisingSeriesInsufficient ==
    nbars = <<ScenarioBars>> =>
        /\ calculate_indicators([n |-> ScenarioBars,
                                  tail |-> <<RisingTail>>]) = <<>>
        /\ data = <<>>
        /\ "INSUFFICIENT" \in { sent[k] : k \in DOMAIN sent }
        /\ "BUY" \notin { sent[k] : k \in DOMAIN sent }
        /\ trade_log = <<>>
        /\ summary = <<>>

\* the 30-bar rising series has been downloaded and its symbol is done
C13_Witness ==
    /\ nbars = <<ScenarioBars>>
    /\ generate_signal(RisingTail, <<>>) = "NONE"
    /\ pc = "next"

\* ------------------------------------------- C14: the end of the series

\* a step taken once the candle loop is exhausted: the summary or the plot
C14_Step == (pc = "loop" /\ i >= Len(data)) \/ pc = "plot"

\* C14: once the last bar is processed nothing is appended to the log and
\* an open position stays open (no forced liquidation); the summary values
\* the open position at quantity x the last close of the frame, 0 when
\* flat, and its ROI is (realized profit + open-position value) over the
\* starting capital (reported in percent; here in tenths of a percent).
C14_MarkToLastClose ==
    [][C14_Step =>
        /\ trade_log' = trade_log
        /\ position' = position
        /\ total_profit' = total_profit
        /\ summary' # <<>> =>
              LET s == summary'[1]
                  last == data[Len(data)]
              IN  /\ s.trades = Len(trade_log)
                  /\ s.open_position_value =
                        IF position # <<>>
                        THEN position[1].qty * last.Close ELSE 0
                  /\ s.roi_tenths =
                        ((total_profit + s.open_position_value) * 1000)
                          \div StartingCapital]_vars

\* a summary with a position still open, bought at another price than the
\* last close, after a realized trade
C14_Witness ==
    /\ summary # <<>>
    /\ position # <<>>
    /\ position[1].buy_price # data[Len(data)].Close
    /\ total_profit # 0
    /\ summary[1].open_position_value =
          position[1].qty * data[Len(data)].Close

\* ------------------------------------------- C15: RSI with no loss at all

\* a call of either calculate_rsi has returned
RsiReturned ==
    /\ calc.fn \in {"calculate_rsi", "bot_calculate_rsi"}
    /\ calc.out # <<>>

\* C15: whenever the average loss over the window is exactly 0,
\* calculate_rsi (of either script) yields 100, never nan, also when the
\* average gain is 0 too, and the row is not dropped by dropna().
C15_ZeroLossGivesHundred ==
    (RsiReturned /\ RollingSum(Losses(calc.args[1]), RSI_WINDOW) = 0) =>
        /\ calc.out[1].rsi = 100
        /\ calc.out[1].rsi # NaN
        /\ calc.out[1].kept

\* ------------------------------------------------- C16: the MACD vote

\* the four votes of a row, the MACD's SELL vote being given
BuyVotes(row) ==
    Cardinality({ v \in {"ma", "rsi", "macd", "bb"} :
        \/ v = "ma" /\ row.Close > row.MA20 /\ row.MA20 > row.MA50
        \/ v = "rsi" /\ row.RSI < RSI_OVERSOLD
        \/ v = "macd" /\ row.MACD > row.MACD_Signal
        \/ v = "bb" /\ row.Close < row.LowerBand })
SellVotes(row, macd_sell) ==
    Cardinality({ v \in {"ma", "rsi", "macd", "bb"} :
        \/ v = "ma" /\ row.Close < row.MA20 /\ row.MA20 < row.MA50
        \/ v = "rsi" /\ row.RSI > RSI_OVERBOUGHT
        \/ v = "macd" /\ macd_sell
        \/ v = "bb" /\ row.Close > row.UpperBand })
Decision(buys, sells, pos) ==
    IF buys >= 3 /\ pos = <<>> THEN "BUY"
    ELSE IF sells >= 3 /\ pos # <<>> THEN "SELL"
    ELSE "NONE"

SignalReturned == calc.fn = "generate_signal" /\ calc.out # <<>>

\* C16 as stated: the MACD votes BUY when MACD > MACD_Signal and SELL
\* otherwise, equality included; the decision is BUY iff there are 3 BUY
\* votes and no position, SELL iff there are 3 SELL votes and a position,
\* else none.
C16_MacdVotesOnEveryRow ==
    SignalReturned =>
        LET row == calc.args[1]
        IN  calc.out[1] =
              Decision(BuyVotes(row),
                       SellVotes(row, ~(row.MACD > row.MACD_Signal)),
                       calc.args[2])

\* C16 amended: the MACD votes BUY when MACD > MACD_Signal, SELL when
\* MACD < MACD_Signal and not at all when they are equal; the decision is
\* BUY iff there are 3 BUY votes and no position, SELL iff there are 3
\* SELL votes and a position, else none.
C16_MacdVotesWhenStrict ==
    SignalReturned =>
        LET row == calc.args[1]
        IN  calc.out[1] =
              Decision(BuyVotes(row),
                       SellVotes(row, row.MACD < row.MACD_Signal),
                       calc.args[2])

\* generate_signal returned no decision for an open position on a row
\* whose MACD equals its signal line and that has two other SELL votes
C16_Witness ==
    /\ SignalReturned
    /\ calc.args[2] # <<>>
    /\ calc.args[1].MACD = calc.args[1].MACD_Signal
    /\ SellVotes(calc.args[1], FALSE) = 2
    /\ calc.out[1] = "NONE"

\* --------------------------------------- C17: a notification that fails

\* a sender was called, made its HTTP call, and the call did not succeed
SendFailed ==
    /\ calc.fn \in {"send_telegram_message", "send_alert"}
    /\ calc.out # <<>>
    /\ calc.out[1].posted
    /\ calc.args[Len(calc.args)] # "200"

\* C17: when the HTTP call of send_telegram_message or of send_alert
\* raises or returns a non-success status, the sender logs the failure
\* locally and returns normally: nothing propagates to its caller.
C17_SendFailureOnlyLogged ==
    SendFailed =>
        /\ ~calc.out[1].raised
        /\ calc.out[1].printed # ""

\* ---------------------------------------------- C18: the first row

\* the candle loop is exhausted
LoopDone == (pc = "loop" /\ i >= Len(data)) \/ pc = "plot"

\* C18: every row calculate_indicators returned is evaluated, the first one
\* included: when the rules decide BUY on the first row and the budget
\* buys at least one share, the log of the finished loop starts with a BUY
\* at that row; so a frame of a single such row gives a BUY.
C18_FirstRowEvaluated ==
    (LoopDone /\ data # <<>>) =>
        LET first == Iloc(data, 0)
        IN  ( /\ generate_signal(first, <<>>) = "BUY"
              /\ first.Close > 0
              /\ Qty(first) >= 1 )
            => /\ trade_log # <<>>
               /\ trade_log[1] = <<"BUY", 0, first.Close, Qty(first)>>

\* ------------------------------------------- C19: the shape of the log

\* C19: the log alternates BUY, exit, BUY, exit, ... from a BUY on; the
\* events' bars strictly increase, so a bar gives at most one event (no
\* exit on the bar of the BUY, no BUY on the bar of the exit); the log's
\* length is odd exactly when a position is open, so that
\* exits <= BUYs <= exits + 1.
C19_LogAlternates ==
    LET buys  == Cardinality({ k \in DOMAIN trade_log : IsBuy(trade_log[k]) })
        exits == Cardinality({ k \in DOMAIN trade_log : IsExit(trade_log[k]) })
    IN  /\ \A k \in DOMAIN trade_log :
              IF k % 2 = 1 THEN IsBuy(trade_log[k]) /\ ~IsExit(trade_log[k])
              ELSE IsExit(trade_log[k]) /\ ~IsBuy(trade_log[k])
        /\ \A k \in 1..(Len(trade_log) - 1) :
              trade_log[k][2] < trade_log[k + 1][2]
        /\ (Len(trade_log) % 2 = 1) <=> (position # <<>>)
        /\ exits <= buys
        /\ buys <= exits + 1

\* a log of BUY, exit, BUY with the second position still open, the
\* re-entry on the bar after the exit
C19_Witness ==
    /\ Len(trade_log) = 3
    /\ position # <<>>
    /\ trade_log[3][2] = trade_log[2][2] + 1
    /\ trade_log[2][2] = trade_log[1][2] + 1

\* ------------------------------------- C20: the value after a BUY

\* C20: opening a position leaves the reported value alone: the summary's
\* final value is the starting capital plus the realized profit plus the
\* open position's unrealized profit, quantity x (last close - entry
\* price); a run whose only event is a BUY on the last bar reports ROI 0.
C20_OpeningKeepsValue ==
    summary # <<>> =>
        LET s == summary[1]
            last == data[Len(data)]
            unrealized == IF position # <<>>
                          THEN position[1].qty
                                 * (last.Close - position[1].buy_price)
                          ELSE 0
        IN  /\ s.final_value = StartingCapital + s.total_profit + unrealized
            /\ ( /\ Len(trade_log) = 1
                  /\ trade_log[1][2] = Len(data) - 1 )
                => s.roi_tenths = 0
====
